---- MODULE Spec2Model ----
(***************************************************************************)
(* Model of the uri-pattern-matcher crate (src/src/lib.rs).                *)
(*                                                                         *)
(* A string is a sequence of characters, a character a one-letter string.  *)
(* A UriPattern is built from a template (From), matched against a         *)
(* candidate (is_match) and compared with other patterns (eq, partial_cmp, *)
(* cmp), which all go through a UriPatternScore.  The modules pattern_part *)
(* and uri_pattern_score are declared by lib.rs (lines 41-42) but their    *)
(* code is not part of the sources; PatternPart_from, UriPatternScore_from,*)
(* Score_eq and Score_cmp follow the written specification (sections 4.1   *)
(* and 4.3).                                                               *)
(***************************************************************************)
EXTENDS Naturals, Sequences, FiniteSets

VARIABLES templates, candidate, patterns, pc, matched, eqs, pcmps, cmps, best

vars == <<templates, candidate, patterns, pc, matched, eqs, pcmps, cmps, best>>

(***************************************************************************)
(* Bounds of the explored inputs.                                          *)
(***************************************************************************)
\* largest number of segments of a generated template or candidate of the
\* matching and best-match runs
MaxParts == 2
\* largest number of segments of a generated template of the ordering runs
MaxShape == 2

(***************************************************************************)
(* Strings.                                                                *)
(***************************************************************************)
Sep == "/"

RECURSIVE Join(_)
\* the segments of segs, joined by the separator
Join(segs) ==
    IF Len(segs) = 0 THEN <<>>
    ELSE IF Len(segs) = 1 THEN segs[1]
    ELSE segs[1] \o <<Sep>> \o Join(Tail(segs))

\* every sequence of 1..n elements of S
SeqsUpTo(S, n) == UNION {[1..k -> S] : k \in 1..n}

\* the strings made of 1..n segments of segs
Strs(segs, n) == {Join(ss) : ss \in SeqsUpTo(segs, n)}

(***************************************************************************)
(* str::split('/') as called at lib.rs:57 and lib.rs:77: the pieces        *)
(* between the separators, empty pieces kept; "" gives one empty piece.    *)
(***************************************************************************)
RECURSIVE Split_skip_empty(_)
\* a split that drops the empty pieces
Split_skip_empty(s) ==
    LET seps == {i \in 1..Len(s) : s[i] = Sep}
    IN  IF seps = {}
        THEN IF Len(s) = 0 THEN <<>> ELSE <<s>>
        ELSE LET i == CHOOSE p \in seps : \A q \in seps : p <= q
                 head == IF i = 1 THEN <<>> ELSE <<SubSeq(s, 1, i - 1)>>
             IN  head \o Split_skip_empty(SubSeq(s, i + 1, Len(s)))

RECURSIVE Split(_)
Split(s) ==
    LET seps == {i \in 1..Len(s) : s[i] = Sep}
    IN  IF seps = {}
        THEN <<s>>
        ELSE LET i == CHOOSE p \in seps : \A q \in seps : p <= q
             IN  <<SubSeq(s, 1, i - 1)>> \o Split(SubSeq(s, i + 1, Len(s)))

(***************************************************************************)
(* PatternPart: Joker, or Value(s) holding the raw text of the segment.    *)
(***************************************************************************)
Joker == [kind |-> "Joker"]

Value(s) == [kind |-> "Value", s |-> s]

\* impl From<&str> for PatternPart (specification 4.1)
PatternPart_from(part) ==
    IF Len(part) >= 2 /\ part[1] = "{" /\ part[Len(part)] = "}"
    THEN Joker
    ELSE Value(part)

(***************************************************************************)
(* UriPattern: the template and its parts.                                 *)
(***************************************************************************)
\* a construction that drops the empty segments of the template
UriPattern_from_skip_empty(pattern) ==
    LET split == Split_skip_empty(pattern)
    IN  [value |-> pattern,
         parts |-> [i \in 1..Len(split) |-> PatternPart_from(split[i])]]

\* impl From<&str> for UriPattern
UriPattern_from(pattern) ==
    LET split == Split(pattern)
    IN  [value |-> pattern,
         parts |-> [i \in 1..Len(split) |-> PatternPart_from(split[i])]]

\* Vec::get: None is <<>>, Some(x) is <<x>>
Get(v, key) == IF key \in 1..Len(v) THEN <<v[key]>> ELSE <<>>

\* one position of is_match: the closure of lib.rs:84-88
MatchPart(self, key, value) ==
    LET part == Get(self.parts, key)
    IN  IF part = <<>> THEN FALSE
        ELSE IF part[1].kind = "Joker" THEN TRUE
        ELSE part[1].s = value

\* is_match without the comparison of the two lengths
is_match_no_len(self, cand) ==
    LET splitted == Split(cand)
        flags == [key \in 1..Len(splitted) |-> MatchPart(self, key, splitted[key])]
    IN  ~(\E key \in 1..Len(flags) : flags[key] = FALSE)

\* is_match reading the part after the one of the segment
is_match_shifted(self, cand) ==
    LET splitted == Split(cand)
    IN  IF Len(splitted) # Len(self.parts)
        THEN FALSE
        ELSE LET flags == [key \in 1..Len(splitted) |->
                              MatchPart(self, key + 1, splitted[key])]
             IN  ~(\E key \in 1..Len(flags) : flags[key] = FALSE)

\* UriPattern::is_match
is_match(self, cand) ==
    LET splitted == Split(cand)
    IN  IF Len(splitted) # Len(self.parts)
        THEN FALSE
        ELSE LET flags == [key \in 1..Len(splitted) |->
                              MatchPart(self, key, splitted[key])]
             IN  ~(\E key \in 1..Len(flags) : flags[key] = FALSE)

(***************************************************************************)
(* UriPatternScore (specification 4.3): the tuple of is-literal flags of   *)
(* the parts, compared lexicographically, a literal above a placeholder,   *)
(* and the longer of two tuples above its proper prefix.                   *)
(***************************************************************************)
UriPatternScore_from(pattern) ==
    [i \in 1..Len(pattern.parts) |-> pattern.parts[i].kind = "Value"]

Score_eq(score, other_score) == score = other_score

RECURSIVE Score_cmp(_, _)
Score_cmp(score, other_score) ==
    IF Len(score) = 0 /\ Len(other_score) = 0 THEN "Equal"
    ELSE IF Len(score) = 0 THEN "Less"
    ELSE IF Len(other_score) = 0 THEN "Greater"
    ELSE IF score[1] = other_score[1]
         THEN Score_cmp(Tail(score), Tail(other_score))
    ELSE IF score[1] THEN "Greater"
    ELSE "Less"

\* the default partial_cmp of a totally ordered score
Score_partial_cmp(score, other_score) == <<Score_cmp(score, other_score)>>

(***************************************************************************)
(* Equality and ordering of patterns.                                      *)
(***************************************************************************)
\* an equality of the stored template texts
eq_textual(self, other) == self.value = other.value

\* impl PartialEq for UriPattern
eq(self, other) ==
    LET score == UriPatternScore_from(self)
        other_score == UriPatternScore_from(other)
    IN  Score_eq(score, other_score)

\* partial_cmp with the two scores exchanged
partial_cmp_swapped(self, other) ==
    LET score == UriPatternScore_from(self)
        other_score == UriPatternScore_from(other)
    IN  Score_partial_cmp(other_score, score)

\* impl PartialOrd for UriPattern
partial_cmp(self, other) ==
    LET score == UriPatternScore_from(self)
        other_score == UriPatternScore_from(other)
    IN  Score_partial_cmp(score, other_score)

\* cmp with the two scores exchanged
cmp_swapped(self, other) ==
    LET score == UriPatternScore_from(self)
        other_score == UriPatternScore_from(other)
    IN  Score_cmp(other_score, score)

\* cmp comparing the score of self with itself
cmp_self(self, other) ==
    LET score == UriPatternScore_from(self)
    IN  Score_cmp(score, score)

\* cmp of the numbers of parts alone
cmp_len(self, other) ==
    IF Len(self.parts) < Len(other.parts) THEN "Less"
    ELSE IF Len(self.parts) > Len(other.parts) THEN "Greater"
    ELSE "Equal"

\* impl Ord for UriPattern
cmp(self, other) ==
    LET score == UriPatternScore_from(self)
        other_score == UriPatternScore_from(other)
    IN  Score_cmp(score, other_score)

(***************************************************************************)
(* patterns.iter().filter(|p| p.is_match(candidate)).max()                 *)
(* (lib.rs:36-38, lib.rs:159).  Iterator::max keeps the later of two       *)
(* elements unless the earlier one compares Greater.                       *)
(***************************************************************************)
Filter(ps, cand) == SelectSeq(ps, LAMBDA p : is_match(p, cand))

RECURSIVE MaxFold(_, _)
MaxFold(x, rest) ==
    IF Len(rest) = 0 THEN x
    ELSE MaxFold(IF cmp(x, rest[1]) = "Greater" THEN x ELSE rest[1], Tail(rest))

IterMax(ps) == IF Len(ps) = 0 THEN <<>> ELSE <<MaxFold(ps[1], Tail(ps))>>

best_match(ps, cand) == IterMax(Filter(ps, cand))

(***************************************************************************)
(* The inputs: the templates and candidates of the tests and of the crate  *)
(* documentation (lib.rs:13-39, 126-163), and every string made of a few   *)
(* segments of a small set of segment texts.                               *)
(***************************************************************************)
E == <<>>

Brace(w) == <<"{">> \o w \o <<"}">>

W_a == <<"a">>
W_b == <<"b">>
W_c == <<"c">>
W_d == <<"d">>
W_x == <<"x">>
W_id == <<"i", "d">>
W_id1 == <<"i", "d", "1">>
W_api == <<"a", "p", "i">>
W_foo == <<"f", "o", "o">>
W_bar == <<"b", "a", "r">>
W_zzz == <<"z", "z", "z">>
W_test == <<"t", "e", "s", "t">>
W_John == <<"J", "o", "h", "n">>
W_resource == <<"r", "e", "s", "o", "u", "r", "c", "e">>
W_customer == <<"c", "u", "s", "t", "o", "m", "e", "r">>
W_details == <<"d", "e", "t", "a", "i", "l", "s">>

\* "/a/{b}/{c}/d"
T_a_b_c_d == Join(<<E, W_a, Brace(W_b), Brace(W_c), W_d>>)
\* "/a/{b}/c/{d}"
T_a_b_c_d2 == Join(<<E, W_a, Brace(W_b), W_c, Brace(W_d)>>)
\* "/api/{resource}/{id}/details"
T_api_resource_id_details ==
    Join(<<E, W_api, Brace(W_resource), Brace(W_id), W_details>>)
\* "/api/{foo}/{bar}/zzz"
T_api_foo_bar_zzz == Join(<<E, W_api, Brace(W_foo), Brace(W_bar), W_zzz>>)
\* "/api/{foo}/bar/{zzz}"
T_api_foo_bar_zzz2 == Join(<<E, W_api, Brace(W_foo), W_bar, Brace(W_zzz)>>)
\* "/{api}/{foo}/foo/{zzz}"
T_api_foo_foo_zzz == Join(<<E, Brace(W_api), Brace(W_foo), W_foo, Brace(W_zzz)>>)

\* "/a/resource/test/d"
C_a_resource_test_d == Join(<<E, W_a, W_resource, W_test, W_d>>)
\* "/api/resource/id1/details"
C_api_resource_id1_details == Join(<<E, W_api, W_resource, W_id1, W_details>>)
\* "/api/customer/John/details"
C_api_customer_John_details == Join(<<E, W_api, W_customer, W_John, W_details>>)
\* "/api/resource/bar/zzz"
C_api_resource_bar_zzz == Join(<<E, W_api, W_resource, W_bar, W_zzz>>)

\* the patterns of the best-match example, in their order (lib.rs:153-157)
BestPatterns == <<T_api_foo_bar_zzz2, T_api_foo_bar_zzz, T_api_foo_foo_zzz>>

MatchSegs == {E, W_x, <<"{">>, Brace(E), Brace(W_x), <<"x", "}">>}

MatchStrings ==
    Strs(MatchSegs, MaxParts)
        \cup {<<"}">>, <<"{", "x">>, <<"{", "/", "}">>,
              T_a_b_c_d, T_api_resource_id_details,
              C_a_resource_test_d, C_api_resource_id1_details,
              C_api_customer_John_details}

OrdSegs == {W_a, Brace(W_a)}

OrdTemplates ==
    Strs(OrdSegs, MaxShape)
        \cup {Join(<<Brace(W_a), Brace(W_a), Brace(W_a)>>),
              Join(<<W_a, Brace(W_a), Brace(W_a)>>),
              Join(<<Brace(W_a), W_a, W_a>>),
              Join(<<W_b, W_b, W_b>>),
              T_a_b_c_d, T_a_b_c_d2, T_api_resource_id_details,
              T_api_foo_bar_zzz, T_api_foo_bar_zzz2}

BestTemplates ==
    Strs({W_a, Brace(W_a)}, MaxParts)
        \cup {T_api_foo_bar_zzz2, T_api_foo_bar_zzz, T_api_foo_foo_zzz}

BestCandidates == Strs({W_a, W_b}, MaxParts) \cup {C_api_resource_bar_zzz}

(***************************************************************************)
(* The state: the templates handed to From and the candidate, the patterns *)
(* built from them, and the value the last call of each operation          *)
(* returned.  An Option is a sequence: None is <<>>, Some(x) is <<x>>; a   *)
(* result that was not computed yet is <<>> too, a computed Option is      *)
(* wrapped once more.                                                      *)
(***************************************************************************)
Unset == <<>>

InitRest ==
    /\ patterns = <<>>
    /\ pc = "new"
    /\ matched = Unset
    /\ eqs = Unset
    /\ pcmps = Unset
    /\ cmps = Unset
    /\ best = Unset

\* one pattern and a candidate
InitMatch ==
    /\ templates \in {<<t>> : t \in MatchStrings}
    /\ candidate \in MatchStrings
    /\ InitRest

\* three patterns to compare
InitOrd ==
    /\ templates \in [1..3 -> OrdTemplates]
    /\ candidate = E
    /\ InitRest

\* a collection of three patterns and a candidate
InitBest ==
    /\ templates \in [1..3 -> BestTemplates]
    /\ candidate \in BestCandidates
    /\ InitRest

\* UriPattern::from of every template (lib.rs:56-62)
Construct ==
    /\ pc = "new"
    /\ patterns' = [i \in 1..Len(templates) |-> UriPattern_from(templates[i])]
    /\ pc' = "ready"
    /\ UNCHANGED <<templates, candidate, matched, eqs, pcmps, cmps, best>>

\* pattern.is_match(candidate) (lib.rs:76-91)
IsMatch ==
    /\ pc = "ready"
    /\ matched' = <<is_match(patterns[1], candidate)>>
    /\ UNCHANGED <<templates, candidate, patterns, pc, eqs, pcmps, cmps, best>>

\* a == b for every two of the patterns (lib.rs:95-99)
Eq ==
    /\ pc = "ready"
    /\ eqs' = [i \in 1..Len(patterns) |->
                 [j \in 1..Len(patterns) |-> eq(patterns[i], patterns[j])]]
    /\ UNCHANGED <<templates, candidate, patterns, pc, matched, pcmps, cmps, best>>

\* a.partial_cmp(b) for every two of the patterns (lib.rs:103-107)
PartialCmp ==
    /\ pc = "ready"
    /\ pcmps' = [i \in 1..Len(patterns) |->
                   [j \in 1..Len(patterns) |-> partial_cmp(patterns[i], patterns[j])]]
    /\ UNCHANGED <<templates, candidate, patterns, pc, matched, eqs, cmps, best>>

\* a.cmp(b) for every two of the patterns (lib.rs:111-115)
Cmp ==
    /\ pc = "ready"
    /\ cmps' = [i \in 1..Len(patterns) |->
                  [j \in 1..Len(patterns) |-> cmp(patterns[i], patterns[j])]]
    /\ UNCHANGED <<templates, candidate, patterns, pc, matched, eqs, pcmps, best>>

\* patterns.iter().filter(|p| p.is_match(candidate)).max() (lib.rs:159)
BestMatch ==
    /\ pc = "ready"
    /\ best' = <<best_match(patterns, candidate)>>
    /\ UNCHANGED <<templates, candidate, patterns, pc, matched, eqs, pcmps, cmps>>

NextMatch == Construct \/ IsMatch

NextOrd == Construct \/ Eq \/ PartialCmp \/ Cmp

NextBest == Construct \/ BestMatch

SpecMatch == InitMatch /\ [][NextMatch]_vars

SpecOrd == InitOrd /\ [][NextOrd]_vars

SpecBest == InitBest /\ [][NextBest]_vars

(***************************************************************************)
(* What the properties are stated with: the segments of a string read off  *)
(* the positions of its separators, and the shape of a template.           *)
(***************************************************************************)
SepPos(s) == {i \in 1..Len(s) : s[i] = Sep}

NumSegments(s) == Cardinality(SepPos(s)) + 1

\* the position of the k-th separator of s
NthSep(s, k) ==
    CHOOSE p \in SepPos(s) : Cardinality({q \in SepPos(s) : q <= p}) = k

\* the i-th segment of s, 1 <= i <= NumSegments(s)
Segment(s, i) ==
    LET first == IF i = 1 THEN 1 ELSE NthSep(s, i - 1) + 1
        last == IF i = NumSegments(s) THEN Len(s) ELSE NthSep(s, i) - 1
    IN  [k \in 1..(last + 1 - first) |-> s[first + k - 1]]

IsPlaceholderText(t) == Len(t) >= 2 /\ t[1] = "{" /\ t[Len(t)] = "}"

\* the segments of s, in their order
Segments(s) == <<>> \o [i \in 1..NumSegments(s) |-> Segment(s, i)]

\* the shape of a template: for each segment, whether it is a literal
Shape(t) ==
    <<>> \o [i \in 1..NumSegments(t) |-> ~IsPlaceholderText(Segment(t, i))]

Min(m, n) == IF m <= n THEN m ELSE n

\* the positions, within the shorter of the shapes x and y, where they differ
Differ(x, y) == {k \in 1..Min(Len(x), Len(y)) : x[k] # y[k]}

\* the lexicographic comparison of the shapes x and y, a literal above a
\* placeholder and a shape above its proper prefixes
Lex(x, y) ==
    LET D == Differ(x, y)
    IN  IF D # {}
        THEN LET k == CHOOSE d \in D : \A e \in D : d <= e
             IN  IF x[k] THEN "Greater" ELSE "Less"
        ELSE IF Len(x) < Len(y) THEN "Less"
        ELSE IF Len(x) > Len(y) THEN "Greater"
        ELSE "Equal"

Reverse(o) == IF o = "Less" THEN "Greater" ELSE IF o = "Greater" THEN "Less" ELSE o

Idx == 1..Len(templates)

\* the shapes and the segments of the templates of the state
Shapes == <<>> \o [i \in Idx |-> Shape(templates[i])]

Texts == <<>> \o [i \in Idx |-> Segments(templates[i])]

\* segments u are segments t with the placeholder of position i replaced by
\* a literal
Replaced(t, u, i) ==
    /\ Len(u) = Len(t)
    /\ IsPlaceholderText(t[i])
    /\ ~IsPlaceholderText(u[i])
    /\ \A k \in 1..Len(t) : k # i => u[k] = t[k]

\* shape y has the length of shape x and its kinds up to position i
AgreesUpTo(x, y, i) ==
    /\ Len(y) = Len(x)
    /\ \A k \in 1..i : y[k] = x[k]

(***************************************************************************)
(* Properties of matching (SpecMatch).                                     *)
(***************************************************************************)
\* C1: is_match(c) is true exactly when c has as many segments as the
\* pattern has parts and every part is a placeholder or a literal with the
\* text of the candidate's segment at its position; different numbers of
\* segments never match.
C1_IsMatchIff ==
    matched # Unset =>
        LET parts == patterns[1].parts
        IN  /\ matched[1] <=>
                  /\ NumSegments(candidate) = Len(parts)
                  /\ \A i \in 1..Len(parts) :
                        \/ parts[i].kind = "Joker"
                        \/ /\ parts[i].kind = "Value"
                           /\ parts[i].s = Segment(candidate, i)
            /\ NumSegments(candidate) # NumSegments(templates[1]) => ~matched[1]

\* a match of a pattern with a placeholder and a non-empty literal
C1_Witness ==
    /\ matched = <<TRUE>>
    /\ \E i, j \in 1..Len(patterns[1].parts) :
          /\ patterns[1].parts[i].kind = "Joker"
          /\ patterns[1].parts[j].kind = "Value"
          /\ patterns[1].parts[j].s # E
    /\ candidate # templates[1]

\* C9: the parts of a pattern are the segments of its template, a segment
\* being a placeholder exactly when it has at least two characters, starts
\* with '{' and ends with '}', and a literal with its raw text otherwise;
\* "{}" matches every candidate of one segment, "{" matches only "{".
C9_Classification ==
    /\ pc = "ready" =>
          LET t == templates[1]
              parts == patterns[1].parts
          IN  /\ patterns[1].value = t
              /\ Len(parts) = NumSegments(t)
              /\ \A i \in 1..Len(parts) :
                    IF IsPlaceholderText(Segment(t, i))
                    THEN parts[i] = Joker
                    ELSE parts[i] = Value(Segment(t, i))
    /\ matched # Unset /\ templates[1] = Brace(E) /\ NumSegments(candidate) = 1
          => matched[1]
    /\ matched # Unset /\ templates[1] = <<"{">>
          => (matched[1] <=> candidate = <<"{">>)

\* a template with a placeholder and a half-open brace, matched against a
\* candidate with that brace
C9_Witness ==
    /\ matched = <<TRUE>>
    /\ \E i, j \in 1..Len(patterns[1].parts) :
          /\ patterns[1].parts[i] = Joker
          /\ patterns[1].parts[j] = Value(<<"{">>)

\* C10: a pattern matches its own template; the empty template has one
\* empty literal part, matches "" and does not match "x".
C10_SelfMatch ==
    /\ matched # Unset /\ candidate = templates[1] => matched[1]
    /\ pc = "ready" /\ templates[1] = E => patterns[1].parts = <<Value(E)>>
    /\ matched # Unset /\ templates[1] = E /\ candidate = W_x => ~matched[1]

\* a self-match of a template with an empty and a placeholder segment
C10_Witness ==
    /\ matched = <<TRUE>>
    /\ candidate = templates[1]
    /\ \E i, j \in 1..NumSegments(candidate) :
          /\ Segment(candidate, i) = E
          /\ IsPlaceholderText(Segment(candidate, j))

(***************************************************************************)
(* Properties of equality and ordering (SpecOrd).                          *)
(***************************************************************************)
\* C2: a == b exactly when a and b have the same number of segments and the
\* same kind at every position, whatever their texts; "/a/{b}/{c}/d" equals
\* "/api/{resource}/{id}/details" and differs from "/a/{b}/c/{d}".
C2_StructuralEq ==
    eqs # Unset =>
        LET sh == Shapes
        IN  \A i, j \in Idx :
                /\ eqs[i][j] <=>
                      /\ Len(sh[i]) = Len(sh[j])
                      /\ \A k \in 1..Len(sh[i]) : sh[i][k] = sh[j][k]
                /\ templates[i] = T_a_b_c_d
                      /\ templates[j] = T_api_resource_id_details
                      => eqs[i][j]
                /\ templates[i] = T_a_b_c_d /\ templates[j] = T_a_b_c_d2
                      => ~eqs[i][j]

\* two equal patterns of different texts, and two different ones
C2_Witness ==
    /\ eqs # Unset
    /\ templates[1] = T_a_b_c_d
    /\ templates[2] = T_api_resource_id_details
    /\ templates[3] = T_a_b_c_d2
    /\ eqs[1][2]
    /\ ~eqs[1][3]

C4_TestsInequality ==
    pcmps # Unset /\ eqs # Unset =>
        \A i, j \in Idx :
            \/ templates[i] = T_a_b_c_d /\ templates[j] = T_a_b_c_d2
            \/ templates[i] = T_api_foo_bar_zzz /\ templates[j] = T_api_foo_bar_zzz2
            => pcmps[i][j] = <<"Greater">> /\ ~eqs[i][j]

\* C6: exactly one of a < b, a == b, a > b; cmp is Equal exactly when a == b;
\* cmp(a, b) is the reverse of cmp(b, a); partial_cmp is Some(cmp); <= is
\* transitive.
C6_TotalOrder ==
    eqs # Unset /\ pcmps # Unset /\ cmps # Unset =>
        \A a, b, c \in Idx :
            /\ Cardinality({r \in {"lt", "eq", "gt"} :
                              \/ r = "lt" /\ pcmps[a][b] = <<"Less">>
                              \/ r = "eq" /\ eqs[a][b]
                              \/ r = "gt" /\ pcmps[a][b] = <<"Greater">>}) = 1
            /\ cmps[a][b] = "Equal" <=> eqs[a][b]
            /\ cmps[a][b] = Reverse(cmps[b][a])
            /\ pcmps[a][b] = <<cmps[a][b]>>
            /\ pcmps[a][b] \in {<<"Less">>, <<"Equal">>}
                  /\ pcmps[b][c] \in {<<"Less">>, <<"Equal">>}
                  => pcmps[a][c] \in {<<"Less">>, <<"Equal">>}

\* a strictly increasing chain of three patterns of one length, all results
\* computed
C6_Witness ==
    /\ eqs # Unset
    /\ pcmps # Unset
    /\ cmps # Unset
    /\ cmps[1][2] = "Less"
    /\ cmps[2][3] = "Less"
    /\ cmps[1][3] = "Less"
    /\ NumSegments(templates[1]) = NumSegments(templates[3])

C8_LongerWins ==
    cmps # Unset \/ eqs # Unset =>
        LET sh == Shapes
        IN  \A i, j \in Idx :
                Len(sh[i]) < Len(sh[j]) /\ Differ(sh[i], sh[j]) = {}
                => /\ cmps # Unset => cmps[i][j] = "Less" /\ cmps[j][i] = "Greater"
                   /\ eqs # Unset => ~eqs[i][j] /\ ~eqs[j][i]

\* the shapes L,L and L,L,L compared
C8_Witness ==
    /\ cmps # Unset
    /\ eqs # Unset
    /\ Shape(templates[1]) = <<TRUE, TRUE>>
    /\ Shape(templates[2]) = <<TRUE, TRUE, TRUE>>
    /\ cmps[1][2] = "Less"
    /\ ~eqs[1][2]

(***************************************************************************)
(* Properties of the best match (SpecBest).                                *)
(***************************************************************************)
\* C5: the best match of "/api/resource/bar/zzz" among "/api/{foo}/bar/{zzz}",
\* "/api/{foo}/{bar}/zzz" and "/{api}/{foo}/foo/{zzz}" equals
\* "/api/{foo}/{bar}/zzz"; in general the best match matches the candidate
\* and no matching pattern of the collection is strictly greater.
C5_BestMatch ==
    best # Unset =>
        LET b == best[1]
        IN  /\ templates = BestPatterns /\ candidate = C_api_resource_bar_zzz
                  => b # <<>> /\ eq(b[1], UriPattern_from(T_api_foo_bar_zzz))
            /\ b # <<>> =>
                  /\ is_match(b[1], candidate)
                  /\ \A i \in Idx :
                        is_match(patterns[i], candidate)
                            => cmp(patterns[i], b[1]) # "Greater"
====
